---- MODULE Spec2Model ----
(***************************************************************************)
(* Model of the transaction processing engine of tps:                      *)
(*   src/src/clients.rs                  Client, ClientPool                *)
(*   src/src/transactions/mod.rs         Transaction, TransactionType      *)
(*   src/src/transactions/management.rs  TransactionTree                   *)
(*   src/src/transactions/processing.rs  process_transactions + handlers   *)
(*                                                                         *)
(* Amounts are rust_decimal Decimals; the model counts them in whole units *)
(* of the smallest input step.  Decimal's `+`/`+=` panics when the sum     *)
(* leaves the representable range; DecimalMax stands for Decimal::MAX.     *)
(* Option<Decimal> is a sequence of length 0 (None) or 1 (Some).           *)
(* Both BTreeMaps are functions whose DOMAIN is the set of present keys.   *)
(***************************************************************************)
EXTENDS Integers, Sequences, FiniteSets, TLC

\* ---- bounds of the model ------------------------------------------------
NumClients == 2
NumTx == 2
MaxAmount == 2
DecimalMax == 3
MaxLen == 4

ClientIds == 1..NumClients
TxIds == 1..NumTx
\* amounts an input record may carry: a negative one, zero, positive ones
Amounts == (0 - 1)..MaxAmount

\* ---- data model ---------------------------------------------------------
Deposit == "deposit"
Withdrawal == "withdrawal"
Dispute == "dispute"
Resolve == "resolve"
Chargeback == "chargeback"

TransactionType == {Deposit, Withdrawal, Dispute, Resolve, Chargeback}

None == <<>>

Some(a) == <<a>>

\* a Transaction as the engine receives it
Transaction(ty, c, t, amt, flag) ==
    [tx_type |-> ty, client_id |-> c, tx_id |-> t, amount |-> amt, in_dispute |-> flag]

\* the records an input may hold.  The dispute-family handlers never read
\* the record's own amount or in_dispute, so one representative is drawn.
Inputs ==
    { Transaction(ty, c, t, amt, f) :
        ty \in {Deposit, Withdrawal}, c \in ClientIds, t \in TxIds,
        amt \in {None} \cup { Some(a) : a \in Amounts }, f \in BOOLEAN }
    \cup
    { Transaction(ty, c, t, None, FALSE) :
        ty \in {Dispute, Resolve, Chargeback}, c \in ClientIds, t \in TxIds }

\* Client::new
ClientNew ==
    [available |-> 0, held |-> 0, total |-> 0, locked |-> FALSE]

\* Client::check_client_validity
check_client_validity(client) ==
    LET available_amount == client.total - client.held
        held_amount == client.total - client.available
        total_amount == client.available + client.held
    IN  IF client.available < 0 \/ available_amount # client.available THEN FALSE
        ELSE IF client.held < 0 \/ held_amount # client.held THEN FALSE
        ELSE IF client.total < 0 \/ total_amount # client.total THEN FALSE
        ELSE TRUE

\* ClientPool::has_client
has_client(clients, client_id) == client_id \in DOMAIN clients

\* faulty variant: the pool is replaced by one that holds the new client only
add_client_Replaces(clients, client_id, client) ==
    [c \in {client_id} |-> client]

\* ClientPool::add_client (BTreeMap::insert)
add_client(clients, client_id, client) ==
    [c \in (DOMAIN clients) \cup {client_id} |->
        IF c = client_id THEN client ELSE clients[c]]

\* TransactionTree::contains
contains(tree, tx_id) == tx_id \in DOMAIN tree

\* TransactionTree::insert (BTreeMap::insert, overwrites)
insert(tree, transaction) ==
    [t \in (DOMAIN tree) \cup {transaction.tx_id} |->
        IF t = transaction.tx_id THEN transaction ELSE tree[t]]

\* Decimal `+`: the sum, which must lie within the representable range
Overflows(x, y) == x + y > DecimalMax \/ x + y < 0 - DecimalMax


\* what a handler hands back, with the pool and the tree as the handler left
\* them: "ok" for Ok(()), "panic", and for Err(..) one of
\*   "invalid"   the client failed check_client_validity after the mutation
\*   "noamount"  the referenced transaction carries no amount
\*   "err"       any other error message
Outcome(res, clients, tree) == [res |-> res, clients |-> clients, tree |-> tree]

\* what process_deposit / process_withdrawal hand back (they take no tree)
PoolOutcome(res, clients) == [res |-> res, clients |-> clients]

\* write a client back into its slot of the pool (the &mut Client)
put_client(clients, client_id, client) == [clients EXCEPT ![client_id] = client]

\* write a transaction back into its slot of the tree (the &mut Transaction)
put_tx(tree, tx_id, tx) == [tree EXCEPT ![tx_id] = tx]

\* processing.rs 83-89 / 128-136: create the client when it is not in the pool
get_or_create(clients, client_id) ==
    IF ~has_client(clients, client_id)
    THEN add_client(clients, client_id, ClientNew)
    ELSE clients

\* faulty variant: the lock is never looked at
is_locked_Never(client) == FALSE

\* processing.rs 97 / 144 / 220 / 294 / 373: locked accounts should not continue
is_locked(client) == client.locked

\* faulty variant: the deposit is added to available twice
deposit_apply_Twice(client, amount) ==
    [client EXCEPT !.available = @ + amount + amount, !.total = @ + amount]

\* faulty variant: the deposit is not added to total
deposit_apply_NoTotal(client, amount) ==
    [client EXCEPT !.available = @ + amount]

\* processing.rs 113-115
deposit_apply(client, amount) ==
    [client EXCEPT !.available = @ + amount, !.total = @ + amount]

\* processing.rs 118-120
deposit_rollback(client, amount) ==
    [client EXCEPT !.available = @ - amount, !.total = @ - amount]

\* processing.rs 82-125
process_deposit(transaction, clients) ==
    LET id == transaction.client_id
        pool == get_or_create(clients, id)
        client == pool[id]
    IN  IF is_locked(client) THEN PoolOutcome("err", pool)
        ELSE IF transaction.amount = None THEN PoolOutcome("err", pool)
        ELSE LET deposit_amount == transaction.amount[1] IN
             IF deposit_amount < 0 THEN PoolOutcome("err", pool)
             ELSE IF Overflows(client.available, deposit_amount)
                  THEN PoolOutcome("panic", pool)
             ELSE IF Overflows(client.total, deposit_amount)
                  THEN PoolOutcome("panic",
                         put_client(pool, id,
                           [client EXCEPT !.available = @ + deposit_amount]))
             ELSE LET after == deposit_apply(client, deposit_amount) IN
                  IF ~check_client_validity(after)
                  THEN PoolOutcome("invalid",
                         put_client(pool, id, deposit_rollback(after, deposit_amount)))
                  ELSE PoolOutcome("ok", put_client(pool, id, after))

\* processing.rs 169-170
withdrawal_apply(client, amount) ==
    [client EXCEPT !.available = @ - amount, !.total = @ - amount]

\* processing.rs 174-175
withdrawal_rollback(client, amount) ==
    [client EXCEPT !.available = @ + amount, !.total = @ + amount]

\* processing.rs 159-164
insufficient_available(client, amount) == client.available < amount

\* processing.rs 127-180
process_withdrawal(transaction, clients) ==
    LET id == transaction.client_id
        pool == get_or_create(clients, id)
        client == pool[id]
    IN  IF is_locked(client) THEN PoolOutcome("err", pool)
        ELSE IF transaction.amount = None THEN PoolOutcome("err", pool)
        ELSE LET withdrawal_amount == transaction.amount[1] IN
             IF withdrawal_amount < 0 THEN PoolOutcome("err", pool)
             ELSE IF insufficient_available(client, withdrawal_amount)
                  THEN PoolOutcome("err", pool)
             ELSE IF Overflows(client.available, 0 - withdrawal_amount)
                  THEN PoolOutcome("panic", pool)
             ELSE IF Overflows(client.total, 0 - withdrawal_amount)
                  THEN PoolOutcome("panic",
                         put_client(pool, id,
                           [client EXCEPT !.available = @ - withdrawal_amount]))
             ELSE LET after == withdrawal_apply(client, withdrawal_amount) IN
                  IF ~check_client_validity(after)
                  THEN PoolOutcome("invalid",
                         put_client(pool, id, withdrawal_rollback(after, withdrawal_amount)))
                  ELSE PoolOutcome("ok", put_client(pool, id, after))


\* faulty variant: the type of the referenced transaction is not looked at
is_deposit_Any(tx) == TRUE

\* processing.rs 232 / 306 / 385: only a referenced deposit is acted upon
is_deposit(tx) == tx.tx_type = Deposit

\* faulty variant: the disputed amount is credited to held and total instead of
\* being taken from available
dispute_apply_client_Credits(client, amount) ==
    [client EXCEPT !.held = @ + amount, !.total = @ + amount]

\* faulty variant: the disputed amount leaves available and never reaches held
dispute_apply_client_NoHeld(client, amount) ==
    [client EXCEPT !.available = @ - amount]

\* processing.rs 240-243
dispute_apply_client(client, amount) ==
    [client EXCEPT !.available = @ - amount, !.held = @ + amount]

\* faulty variant: the referenced record is not marked as disputed
dispute_apply_tx_Unmarked(tx) == tx

\* processing.rs 243
dispute_apply_tx(tx) == [tx EXCEPT !.in_dispute = TRUE]

\* processing.rs 247-248
dispute_rollback_client(client, amount) ==
    [client EXCEPT !.available = @ + amount, !.held = @ - amount]

\* processing.rs 182-256
process_dispute(transaction, clients, tree) ==
    LET id == transaction.client_id
        tx_id == transaction.tx_id
    IN  IF ~has_client(clients, id) THEN Outcome("err", clients, tree)
        ELSE IF ~contains(tree, tx_id) THEN Outcome("err", clients, tree)
        ELSE LET found_transaction == tree[tx_id]
                 client == clients[id]
             IN
             IF is_locked(client) THEN Outcome("err", clients, tree)
             ELSE IF found_transaction.amount = None THEN Outcome("noamount", clients, tree)
             ELSE LET dispute_amount == found_transaction.amount[1] IN
                  IF is_deposit(found_transaction)
                  THEN IF insufficient_available(client, dispute_amount)
                       THEN Outcome("err", clients, tree)
                       ELSE IF Overflows(client.available, 0 - dispute_amount)
                       THEN Outcome("panic", clients, tree)
                       ELSE IF Overflows(client.held, dispute_amount)
                       THEN Outcome("panic",
                              put_client(clients, id,
                                [client EXCEPT !.available = @ - dispute_amount]), tree)
                       ELSE LET after == dispute_apply_client(client, dispute_amount) IN
                            IF ~check_client_validity(after)
                            THEN Outcome("invalid",
                                   put_client(clients, id,
                                     dispute_rollback_client(after, dispute_amount)),
                                   put_tx(tree, tx_id,
                                     [found_transaction EXCEPT !.in_dispute = FALSE]))
                            ELSE Outcome("ok",
                                   put_client(clients, id, after),
                                   put_tx(tree, tx_id, dispute_apply_tx(found_transaction)))
                  ELSE Outcome("ok", clients, tree)

\* processing.rs 307-312 / 386-391
insufficient_held(client, amount) == client.held < amount

\* faulty variant: the dispute flag of the referenced record is not looked at
not_in_dispute_Never(tx) == FALSE

\* processing.rs 314-318 / 393-397
not_in_dispute(tx) == ~tx.in_dispute

\* faulty variant: resolve freezes the account the way chargeback does
resolve_apply_client_Locks(client, amount) ==
    [client EXCEPT !.available = @ + amount, !.held = @ - amount, !.locked = TRUE]

\* faulty variant: the resolved amount is returned to available and stays in held
resolve_apply_client_KeepsHeld(client, amount) ==
    [client EXCEPT !.available = @ + amount]

\* processing.rs 321-322
resolve_apply_client(client, amount) ==
    [client EXCEPT !.available = @ + amount, !.held = @ - amount]

\* processing.rs 324
resolve_apply_tx(tx) == [tx EXCEPT !.in_dispute = FALSE]

\* processing.rs 328-329
resolve_rollback_client(client, amount) ==
    [client EXCEPT !.available = @ - amount, !.held = @ + amount]

\* processing.rs 258-337
process_resolve(transaction, clients, tree) ==
    LET id == transaction.client_id
        tx_id == transaction.tx_id
    IN  IF ~has_client(clients, id) THEN Outcome("err", clients, tree)
        ELSE IF ~contains(tree, tx_id) THEN Outcome("err", clients, tree)
        ELSE LET found_transaction == tree[tx_id]
                 client == clients[id]
             IN
             IF is_locked(client) THEN Outcome("err", clients, tree)
             ELSE IF found_transaction.amount = None THEN Outcome("noamount", clients, tree)
             ELSE LET resolve_amount == found_transaction.amount[1] IN
                  IF is_deposit(found_transaction)
                  THEN IF insufficient_held(client, resolve_amount)
                       THEN Outcome("err", clients, tree)
                       ELSE IF not_in_dispute(found_transaction)
                       THEN Outcome("err", clients, tree)
                       ELSE IF Overflows(client.available, resolve_amount)
                       THEN Outcome("panic", clients, tree)
                       ELSE IF Overflows(client.held, 0 - resolve_amount)
                       THEN Outcome("panic",
                              put_client(clients, id,
                                [client EXCEPT !.available = @ + resolve_amount]), tree)
                       ELSE LET after == resolve_apply_client(client, resolve_amount) IN
                            IF ~check_client_validity(after)
                            THEN Outcome("invalid",
                                   put_client(clients, id,
                                     resolve_rollback_client(after, resolve_amount)),
                                   put_tx(tree, tx_id,
                                     [found_transaction EXCEPT !.in_dispute = TRUE]))
                            ELSE Outcome("ok",
                                   put_client(clients, id, after),
                                   put_tx(tree, tx_id, resolve_apply_tx(found_transaction)))
                  ELSE Outcome("ok", clients, tree)

\* faulty variant: chargeback does not freeze the account
chargeback_apply_client_NoLock(client, amount) ==
    [client EXCEPT !.held = @ - amount, !.total = @ - amount]

\* processing.rs 400-403
chargeback_apply_client(client, amount) ==
    [client EXCEPT !.held = @ - amount, !.total = @ - amount, !.locked = TRUE]

\* processing.rs 406
chargeback_apply_tx(tx) == [tx EXCEPT !.in_dispute = FALSE]

\* processing.rs 410-414
chargeback_rollback_client(client, amount) ==
    [client EXCEPT !.held = @ + amount, !.total = @ + amount, !.locked = FALSE]

\* processing.rs 339-421
process_chargeback(transaction, clients, tree) ==
    LET id == transaction.client_id
        tx_id == transaction.tx_id
    IN  IF ~has_client(clients, id) THEN Outcome("err", clients, tree)
        ELSE IF ~contains(tree, tx_id) THEN Outcome("err", clients, tree)
        ELSE LET found_transaction == tree[tx_id]
                 client == clients[id]
             IN
             IF is_locked(client) THEN Outcome("err", clients, tree)
             ELSE IF found_transaction.amount = None THEN Outcome("noamount", clients, tree)
             ELSE LET chargeback_amount == found_transaction.amount[1] IN
                  IF is_deposit(found_transaction)
                  THEN IF insufficient_held(client, chargeback_amount)
                       THEN Outcome("err", clients, tree)
                       ELSE IF not_in_dispute(found_transaction)
                       THEN Outcome("err", clients, tree)
                       ELSE IF Overflows(client.held, 0 - chargeback_amount)
                       THEN Outcome("panic", clients, tree)
                       ELSE IF Overflows(client.total, 0 - chargeback_amount)
                       THEN Outcome("panic",
                              put_client(clients, id,
                                [client EXCEPT !.held = @ - chargeback_amount]), tree)
                       ELSE LET after == chargeback_apply_client(client, chargeback_amount) IN
                            IF ~check_client_validity(after)
                            THEN Outcome("invalid",
                                   put_client(clients, id,
                                     chargeback_rollback_client(after, chargeback_amount)),
                                   put_tx(tree, tx_id,
                                     [found_transaction EXCEPT !.in_dispute = TRUE]))
                            ELSE Outcome("ok",
                                   put_client(clients, id, after),
                                   put_tx(tree, tx_id, chargeback_apply_tx(found_transaction)))
                  ELSE Outcome("ok", clients, tree)


\* faulty variant: no record is ever taken for a duplicate
is_duplicate_Never(transaction, tree) == FALSE

\* faulty variant: only deposits are checked against the tree
is_duplicate_DepositOnly(transaction, tree) ==
    /\ transaction.tx_type = Deposit
    /\ contains(tree, transaction.tx_id)

\* processing.rs 15-17: the duplicate check of the loop
is_duplicate(transaction, tree) ==
    /\ (transaction.tx_type = Deposit \/ transaction.tx_type = Withdrawal)
    /\ contains(tree, transaction.tx_id)

\* faulty variant: the record is stored whatever the handler returned
record_if_ok_Always(res, tree, transaction) == insert(tree, transaction)

\* faulty variant: the record is stored when the handler returned Ok or
\* rejected the amount
record_if_ok_OrErr(res, tree, transaction) ==
    IF res \in {"ok", "err"} THEN insert(tree, transaction) ELSE tree

\* faulty variant: the record is stored when the handler failed, not when it
\* succeeded
record_if_ok_Inverted(res, tree, transaction) ==
    IF res = "ok" THEN tree ELSE insert(tree, transaction)

\* processing.rs 26 / 36: the tree gets the record only when the handler
\* returned Ok
record_if_ok(res, tree, transaction) ==
    IF res = "ok" THEN insert(tree, transaction) ELSE tree

\* processing.rs 12-78: one iteration of the loop of process_transactions
process_record(transaction, clients, tree) ==
    IF is_duplicate(transaction, tree) THEN Outcome("dup", clients, tree)
    ELSE IF transaction.tx_type = Deposit
         THEN LET r == process_deposit(transaction, clients) IN
              Outcome(r.res, r.clients, record_if_ok(r.res, tree, transaction))
    ELSE IF transaction.tx_type = Withdrawal
         THEN LET r == process_withdrawal(transaction, clients) IN
              Outcome(r.res, r.clients, record_if_ok(r.res, tree, transaction))
    ELSE IF transaction.tx_type = Dispute
         THEN process_dispute(transaction, clients, tree)
    ELSE IF transaction.tx_type = Resolve
         THEN process_resolve(transaction, clients, tree)
    ELSE process_chargeback(transaction, clients, tree)

\* ---- the state machine --------------------------------------------------
VARIABLES
    clients,              \* ClientPool.clients: ClientId -> Client
    transaction_numbers,  \* TransactionTree.transactions: TransactionId -> Transaction
    pc,                   \* "loop" in the for loop, "done" after Ok(()), "panicked"
    idx,                  \* number of input records consumed so far
    last,                 \* <<the record handled by the latest iteration>>, or <<>>
    result,               \* how that iteration ended: "dup", "panic", or what the
                          \* handler handed back
    prev_clients,         \* the pool as it was before the latest iteration
    prev_tree,            \* the tree as it was before the latest iteration
    seen,                 \* tx ids carried by the deposit/withdrawal records
                          \* consumed before the latest iteration
    closed,               \* tx ids of the logged deposits on which a chargeback
                          \* has succeeded so far
    preset,               \* some deposit/withdrawal record consumed so far came
                          \* with in_dispute = true
    charged               \* per client id, the sum of the amounts taken by the
                          \* chargebacks that returned Ok for that client so far

vars ==
    <<clients, transaction_numbers, pc, idx, last, result, prev_clients, prev_tree,
      seen, closed, preset, charged>>

\* main.rs 31-32: empty pool, empty tree, nothing consumed
Init ==
    /\ clients = <<>>
    /\ transaction_numbers = <<>>
    /\ pc = "loop"
    /\ idx = 0
    /\ last = <<>>
    /\ result = "none"
    /\ prev_clients = <<>>
    /\ prev_tree = <<>>
    /\ seen = {}
    /\ closed = {}
    /\ preset = FALSE
    /\ charged = [c \in ClientIds |-> 0]

\* the tx ids of the deposit/withdrawal records consumed so far
SeenNow ==
    IF last # <<>> /\ last[1].tx_type \in {Deposit, Withdrawal}
    THEN seen \cup {last[1].tx_id}
    ELSE seen

\* the closed deposits after the record tr was handled with outcome res on
\* the tree `tree`: a chargeback that returned Ok for a logged deposit closes it
ClosedAfter(tr, tree, res) ==
    IF /\ tr.tx_type = Chargeback
       /\ res = "ok"
       /\ contains(tree, tr.tx_id)
       /\ is_deposit(tree[tr.tx_id])
    THEN closed \cup {tr.tx_id}
    ELSE closed

\* the charged sums after the record tr was handled with outcome res on the
\* tree `tree`: a chargeback that returned Ok for a logged deposit took the
\* amount of that deposit from the account of the client it names (one that
\* returned Ok for a logged withdrawal took nothing)
ChargedAfter(tr, tree, res) ==
    IF /\ tr.tx_type = Chargeback
       /\ res = "ok"
       /\ contains(tree, tr.tx_id)
       /\ is_deposit(tree[tr.tx_id])
    THEN [charged EXCEPT ![tr.client_id] = @ + tree[tr.tx_id].amount[1]]
    ELSE charged

\* one iteration of `for transaction in transactions` on the record tr
Step(tr) ==
    /\ pc = "loop"
    /\ idx < MaxLen
    /\ LET out == process_record(tr, clients, transaction_numbers) IN
        /\ clients' = out.clients
        /\ transaction_numbers' = out.tree
        /\ result' = out.res
        /\ pc' = IF out.res = "panic" THEN "panicked" ELSE "loop"
    /\ idx' = idx + 1
    /\ last' = <<tr>>
    /\ prev_clients' = clients
    /\ prev_tree' = transaction_numbers
    /\ seen' = SeenNow
    /\ closed' = ClosedAfter(tr, transaction_numbers, result')
    /\ preset' = (preset \/ (tr.tx_type \in {Deposit, Withdrawal} /\ tr.in_dispute))
    /\ charged' = ChargedAfter(tr, transaction_numbers, result')

HandleDeposit == \E tr \in Inputs : tr.tx_type = Deposit /\ Step(tr)

HandleWithdrawal == \E tr \in Inputs : tr.tx_type = Withdrawal /\ Step(tr)

HandleDispute == \E tr \in Inputs : tr.tx_type = Dispute /\ Step(tr)

HandleResolve == \E tr \in Inputs : tr.tx_type = Resolve /\ Step(tr)

HandleChargeback == \E tr \in Inputs : tr.tx_type = Chargeback /\ Step(tr)

\* processing.rs 79: the input is exhausted, process_transactions returns Ok(()).
\* The loop's locals are gone; the pool and the tree stay with the caller.
Return ==
    /\ pc = "loop"
    /\ pc' = "done"
    /\ last' = <<>>
    /\ result' = "none"
    /\ prev_clients' = <<>>
    /\ prev_tree' = <<>>
    /\ seen' = {}
    /\ closed' = {}
    /\ preset' = FALSE
    /\ charged' = [c \in ClientIds |-> 0]
    /\ UNCHANGED <<clients, transaction_numbers, idx>>

Next ==
    \/ HandleDeposit
    \/ HandleWithdrawal
    \/ HandleDispute
    \/ HandleResolve
    \/ HandleChargeback
    \/ Return

Spec == Init /\ [][Next]_vars


\* ---- vocabulary of the properties -----------------------------------------
\* the latest iteration handled a record
Acted == last # <<>>

\* the latest iteration ended without a panic, or no iteration ran yet
Completed == result # "panic"

\* the handler of the latest record returned Err
HandlerErr == result \in {"err", "invalid", "noamount"}

\* the latest record was discarded: a duplicate, or its handler returned Err
Rejected == result = "dup" \/ HandlerErr

\* the three balances of a client of a pool
Balances(pool, c) == <<pool[c].available, pool[c].held, pool[c].total>>

\* the available balance a record's client has when the record arrives; a
\* client that is not in the pool yet is created with zero balances first
AvailableBefore(c) ==
    IF c \in DOMAIN prev_clients THEN prev_clients[c].available ELSE 0

\* nothing of the pool and nothing of the tree changed in the latest iteration
StateUnchanged == clients = prev_clients /\ transaction_numbers = prev_tree

C2_LockFreeze ==
    (/\ Acted
     /\ last[1].client_id \in DOMAIN prev_clients
     /\ prev_clients[last[1].client_id].locked)
    => /\ Rejected
       /\ clients[last[1].client_id] = prev_clients[last[1].client_id]
       /\ transaction_numbers = prev_tree

\* a well-formed deposit with a fresh tx id arrived for a locked client
C2_Witness ==
    /\ Acted
    /\ last[1].tx_type = Deposit
    /\ last[1].amount # None /\ last[1].amount[1] > 0
    /\ last[1].tx_id \notin DOMAIN prev_tree
    /\ last[1].client_id \in DOMAIN prev_clients
    /\ prev_clients[last[1].client_id].locked

\* ---- C3 -------------------------------------------------------------------
\* C3: a client becomes locked only in an iteration that is a successful
\* chargeback naming that client, and a client that is locked before an
\* iteration is locked after it, whatever the record and its outcome.
C3_LockOnlyByChargeback ==
    Acted =>
        \A c \in DOMAIN clients :
            /\ (c \in DOMAIN prev_clients /\ prev_clients[c].locked) => clients[c].locked
            /\ (clients[c].locked /\ ~(c \in DOMAIN prev_clients /\ prev_clients[c].locked))
                => /\ last[1].tx_type = Chargeback
                   /\ last[1].client_id = c
                   /\ result = "ok"

\* a chargeback has just locked a client that was unlocked
C3_Witness ==
    /\ Acted /\ last[1].tx_type = Chargeback /\ result = "ok"
    /\ clients[last[1].client_id].locked
    /\ ~prev_clients[last[1].client_id].locked

\* ---- C4 -------------------------------------------------------------------
\* C4 as stated: a deposit or withdrawal whose tx id was carried by an earlier
\* deposit or withdrawal record of the input changes nothing.
C4_SeenIsIgnored ==
    (/\ Acted
     /\ last[1].tx_type \in {Deposit, Withdrawal}
     /\ last[1].tx_id \in seen)
    => StateUnchanged

\* C4 amended: a deposit or withdrawal whose tx id is in the transaction log
\* (it was carried by an earlier accepted deposit or withdrawal) is discarded
\* as a duplicate and changes nothing.
C4_LoggedIsIgnored ==
    (/\ Acted
     /\ last[1].tx_type \in {Deposit, Withdrawal}
     /\ last[1].tx_id \in DOMAIN prev_tree)
    => result = "dup" /\ StateUnchanged

\* a well-formed withdrawal the client could afford was discarded as a duplicate
C4_Witness ==
    /\ Acted /\ result = "dup"
    /\ last[1].tx_type = Withdrawal
    /\ last[1].amount # None /\ last[1].amount[1] > 0
    /\ last[1].client_id \in DOMAIN prev_clients
    /\ ~prev_clients[last[1].client_id].locked
    /\ prev_clients[last[1].client_id].available >= last[1].amount[1]

\* ---- C5 -------------------------------------------------------------------
\* C5: a withdrawal whose amount is greater than its client's available
\* balance is rejected: the client's balances are what they were (zero for a
\* client the withdrawal created) and the tree is unchanged.
C5_InsufficientFunds ==
    (/\ Acted
     /\ last[1].tx_type = Withdrawal
     /\ last[1].amount # None
     /\ last[1].amount[1] > AvailableBefore(last[1].client_id))
    => /\ Rejected
       /\ transaction_numbers = prev_tree
       /\ last[1].client_id \in DOMAIN clients =>
            Balances(clients, last[1].client_id) =
                IF last[1].client_id \in DOMAIN prev_clients
                THEN Balances(prev_clients, last[1].client_id)
                ELSE <<0, 0, 0>>
       /\ last[1].client_id \in DOMAIN prev_clients => last[1].client_id \in DOMAIN clients

\* an unlocked client with a positive available balance asked for more, under
\* a fresh tx id
C5_Witness ==
    /\ Acted
    /\ last[1].tx_type = Withdrawal
    /\ last[1].amount # None
    /\ last[1].tx_id \notin DOMAIN prev_tree
    /\ last[1].client_id \in DOMAIN prev_clients
    /\ ~prev_clients[last[1].client_id].locked
    /\ prev_clients[last[1].client_id].available > 0
    /\ last[1].amount[1] > prev_clients[last[1].client_id].available
    /\ result = "err"


\* ---- C6 / C7 --------------------------------------------------------------
\* the latest iteration was a successful dispute of a logged deposit
DisputedDeposit ==
    /\ Acted /\ last[1].tx_type = Dispute /\ result = "ok"
    /\ prev_tree[last[1].tx_id].tx_type = Deposit

\* this step handles a record of kind ty for the client and the tx id of the
\* record handled by the step before it
FollowsWith(ty) ==
    /\ Acted /\ last' # <<>>
    /\ last'[1].tx_type = ty
    /\ last'[1].tx_id = last[1].tx_id
    /\ last'[1].client_id = last[1].client_id

\* C6: a successful dispute of a logged deposit immediately followed by a
\* resolve of the same tx id for the same client: the resolve succeeds, the
\* client's available, held and total are what they were before the dispute
\* (prev_clients, unprimed, is the pool before the dispute) and the record is
\* no longer in dispute.
C6_DisputeResolveRoundTrip ==
    [][ (DisputedDeposit /\ FollowsWith(Resolve))
        => /\ result' = "ok"
           /\ Balances(clients', last[1].client_id) = Balances(prev_clients, last[1].client_id)
           /\ clients'[last[1].client_id].locked = prev_clients[last[1].client_id].locked
           /\ ~transaction_numbers'[last[1].tx_id].in_dispute ]_vars

\* a dispute moved a positive amount into held and a further record can follow
C6_Witness ==
    /\ DisputedDeposit
    /\ prev_tree[last[1].tx_id].amount[1] > 0
    /\ ~prev_tree[last[1].tx_id].in_dispute
    /\ clients[last[1].client_id].available > 0
    /\ pc = "loop" /\ idx < MaxLen

\* C7: a successful dispute of a logged deposit of amount a immediately
\* followed by a chargeback of the same tx id for the same client: the
\* chargeback succeeds, held is its pre-dispute value, total and available are
\* their pre-dispute values minus a, the client is locked and the record is
\* no longer in dispute.
C7_DisputeChargeback ==
    [][ (DisputedDeposit /\ FollowsWith(Chargeback))
        => LET c == last[1].client_id
               a == prev_tree[last[1].tx_id].amount[1]
           IN  /\ result' = "ok"
               /\ clients'[c].held = prev_clients[c].held
               /\ clients'[c].total = prev_clients[c].total - a
               /\ clients'[c].available = prev_clients[c].available - a
               /\ clients'[c].locked
               /\ ~transaction_numbers'[last[1].tx_id].in_dispute ]_vars

\* a dispute moved all of the client's available funds into held, and a
\* further record can follow
C7_Witness ==
    /\ DisputedDeposit
    /\ prev_tree[last[1].tx_id].amount[1] > 0
    /\ prev_clients[last[1].client_id].available = prev_tree[last[1].tx_id].amount[1]
    /\ clients[last[1].client_id].held = prev_tree[last[1].tx_id].amount[1]
    /\ pc = "loop" /\ idx < MaxLen

\* ---- C8 -------------------------------------------------------------------
\* C8: a dispute by a known, unlocked client whose tx id references a logged
\* withdrawal succeeds and changes no balance, no lock flag and no in_dispute
\* flag.
C8_DisputeOfWithdrawalNoOp ==
    (/\ Acted /\ last[1].tx_type = Dispute
     /\ last[1].client_id \in DOMAIN prev_clients
     /\ ~prev_clients[last[1].client_id].locked
     /\ last[1].tx_id \in DOMAIN prev_tree
     /\ prev_tree[last[1].tx_id].tx_type = Withdrawal)
    => result = "ok" /\ StateUnchanged

\* the dispute of a positive withdrawal by a client that could have covered it
C8_Witness ==
    /\ Acted /\ last[1].tx_type = Dispute /\ result = "ok"
    /\ prev_tree[last[1].tx_id].tx_type = Withdrawal
    /\ prev_tree[last[1].tx_id].amount[1] > 0
    /\ prev_clients[last[1].client_id].available >= prev_tree[last[1].tx_id].amount[1]

\* ---- C9 -------------------------------------------------------------------
\* C9: every record of the input is handled and the loop goes on to the next
\* one (or to Ok(()) at the end of the input): no record stops the run.
C9_RunsToTheEnd ==
    /\ pc \in {"loop", "done"}
    /\ Acted => (result = "ok" \/ Rejected)

IsLedgerRecord == Acted /\ last[1].tx_type \in {Deposit, Withdrawal}

IsDisputeFamily == Acted /\ last[1].tx_type \in {Dispute, Resolve, Chargeback}

\* C11: the log holds only deposits and withdrawals, each under its own
\* tx id; an iteration adds the record it handled when that record is a
\* deposit or withdrawal whose handler returned Ok, and adds nothing otherwise.
C11_LogHoldsAcceptedOnly ==
    /\ \A t \in DOMAIN transaction_numbers :
          /\ transaction_numbers[t].tx_type \in {Deposit, Withdrawal}
          /\ transaction_numbers[t].tx_id = t
    /\ Acted =>
          IF IsLedgerRecord /\ result = "ok"
          THEN /\ last[1].tx_id \notin DOMAIN prev_tree
               /\ DOMAIN transaction_numbers = (DOMAIN prev_tree) \cup {last[1].tx_id}
               /\ transaction_numbers[last[1].tx_id] = last[1]
          ELSE DOMAIN transaction_numbers = DOMAIN prev_tree

\* a well-formed withdrawal with a fresh tx id was rejected for want of funds
\* while the log already held a record, and the log did not grow
C11_Witness ==
    /\ Acted /\ last[1].tx_type = Withdrawal /\ result = "err"
    /\ last[1].amount # None /\ last[1].amount[1] > 0
    /\ last[1].tx_id \notin DOMAIN prev_tree
    /\ DOMAIN prev_tree # {}
    /\ DOMAIN transaction_numbers = DOMAIN prev_tree

\* ---- C12 ------------------------------------------------------------------
\* C12: a logged deposit on which a chargeback has succeeded is not in dispute,
\* in the state the chargeback leaves and in every state after it.
C12_ClosedStaysClosed ==
    \A t \in closed :
        t \in DOMAIN transaction_numbers /\ ~transaction_numbers[t].in_dispute

\* ---- C13 ------------------------------------------------------------------
\* the latest record is a dispute, by a client that was known and unlocked, of
\* a tx id that was logged as a deposit
DisputeOfDeposit ==
    /\ Acted /\ last[1].tx_type = Dispute
    /\ last[1].client_id \in DOMAIN prev_clients
    /\ ~prev_clients[last[1].client_id].locked
    /\ last[1].tx_id \in DOMAIN prev_tree
    /\ prev_tree[last[1].tx_id].tx_type = Deposit

C14_NotInDisputeRejected ==
    /\ (/\ Acted /\ last[1].tx_type \in {Resolve, Chargeback}
        /\ last[1].tx_id \in DOMAIN prev_tree
        /\ prev_tree[last[1].tx_id].tx_type = Deposit
        /\ ~prev_tree[last[1].tx_id].in_dispute)
       => HandlerErr /\ StateUnchanged
    /\ (/\ Acted /\ last[1].tx_type = Chargeback
        /\ last[1].client_id \in DOMAIN prev_clients
        /\ ~prev_clients[last[1].client_id].locked
        /\ clients[last[1].client_id].locked)
       => /\ last[1].tx_id \in DOMAIN prev_tree
          /\ prev_tree[last[1].tx_id].tx_type = Deposit
          /\ prev_tree[last[1].tx_id].in_dispute

\* a chargeback of a deposit that is not in dispute, by an unlocked client
\* holding enough funds (from another dispute) to cover it
C14_Witness ==
    /\ Acted /\ last[1].tx_type = Chargeback
    /\ last[1].client_id \in DOMAIN prev_clients
    /\ ~prev_clients[last[1].client_id].locked
    /\ last[1].tx_id \in DOMAIN prev_tree
    /\ prev_tree[last[1].tx_id].tx_type = Deposit
    /\ ~prev_tree[last[1].tx_id].in_dispute
    /\ prev_tree[last[1].tx_id].amount[1] > 0
    /\ prev_clients[last[1].client_id].held >= prev_tree[last[1].tx_id].amount[1]


\* ---- C15 ------------------------------------------------------------------
\* the latest record names a client that was not in the ledger
ForUnseenClient == Acted /\ last[1].client_id \notin DOMAIN prev_clients

\* C15 as stated: the first deposit or withdrawal record that names an unseen
\* client creates its account.
C15_FirstRecordCreates ==
    (IsLedgerRecord /\ ForUnseenClient) => last[1].client_id \in DOMAIN clients

\* C15 amended: a deposit or withdrawal naming an unseen client creates its
\* account, unlocked and with zero balances (plus the amount of the deposit
\* when the deposit is accepted), unless the record is discarded as a duplicate,
\* which creates nothing; a dispute, resolve or chargeback naming an unseen
\* client returns Err and leaves the key set of the ledger as it was; no
\* iteration removes an account or adds any other account.
C15_AccountLifecycle ==
    /\ Acted => (DOMAIN prev_clients) \subseteq (DOMAIN clients)
    /\ Acted => (DOMAIN clients) \ (DOMAIN prev_clients) \subseteq {last[1].client_id}
    /\ (IsLedgerRecord /\ ForUnseenClient) =>
          IF result = "dup"
          THEN DOMAIN clients = DOMAIN prev_clients
          ELSE /\ last[1].client_id \in DOMAIN clients
               /\ ~clients[last[1].client_id].locked
               /\ Balances(clients, last[1].client_id) =
                    IF last[1].tx_type = Deposit /\ result = "ok"
                    THEN <<last[1].amount[1], 0, last[1].amount[1]>>
                    ELSE <<0, 0, 0>>
    /\ (IsDisputeFamily /\ ForUnseenClient) =>
          HandlerErr /\ DOMAIN clients = DOMAIN prev_clients

\* a second client entered a ledger that already held an account with funds
C15_Witness ==
    /\ IsLedgerRecord /\ ForUnseenClient /\ result = "ok"
    /\ last[1].client_id \in DOMAIN clients
    /\ \E c \in DOMAIN prev_clients : prev_clients[c].total > 0

C17_LogAppendOnly ==
    Acted =>
        \A t \in DOMAIN prev_tree :
            /\ t \in DOMAIN transaction_numbers
            /\ transaction_numbers[t].tx_type = prev_tree[t].tx_type
            /\ transaction_numbers[t].client_id = prev_tree[t].client_id
            /\ transaction_numbers[t].tx_id = prev_tree[t].tx_id
            /\ transaction_numbers[t].amount = prev_tree[t].amount

\* a well-formed withdrawal the client could afford arrived under the tx id
\* of a logged deposit of another client
C17_Witness ==
    /\ Acted /\ last[1].tx_type = Withdrawal
    /\ last[1].tx_id \in DOMAIN prev_tree
    /\ prev_tree[last[1].tx_id].tx_type = Deposit
    /\ prev_tree[last[1].tx_id].client_id # last[1].client_id
    /\ last[1].amount # None /\ last[1].amount[1] > 0
    /\ last[1].client_id \in DOMAIN prev_clients
    /\ ~prev_clients[last[1].client_id].locked
    /\ prev_clients[last[1].client_id].available >= last[1].amount[1]


\* ---- C18 ------------------------------------------------------------------
\* C18: a deposit with a present, non-negative amount a, for a client that is
\* unlocked or not yet in the ledger (and under a tx id that is not in the log,
\* so that the record reaches its handler), returns Ok; it adds a to that
\* client's available and total, leaves its held and locked, every other
\* account and every logged record as they were, and enters the log as given.
C18_DepositEffect ==
    (/\ Acted /\ last[1].tx_type = Deposit
     /\ last[1].amount # None /\ last[1].amount[1] >= 0
     /\ last[1].tx_id \notin DOMAIN prev_tree
     /\ (last[1].client_id \in DOMAIN prev_clients
            => ~prev_clients[last[1].client_id].locked))
    => LET c == last[1].client_id
           a == last[1].amount[1]
           old == IF c \in DOMAIN prev_clients THEN prev_clients[c] ELSE ClientNew
       IN  /\ result = "ok"
           /\ clients[c] = [old EXCEPT !.available = @ + a, !.total = @ + a]
           /\ DOMAIN clients = (DOMAIN prev_clients) \cup {c}
           /\ \A d \in DOMAIN prev_clients : d # c => clients[d] = prev_clients[d]
           /\ DOMAIN transaction_numbers = (DOMAIN prev_tree) \cup {last[1].tx_id}
           /\ \A t \in DOMAIN prev_tree : transaction_numbers[t] = prev_tree[t]
           /\ transaction_numbers[last[1].tx_id] = last[1]

\* ---- C19 ------------------------------------------------------------------
\* C19: every record of the log carries an amount, and the amount is >= 0; no
\* dispute, resolve or chargeback ends with the error that the referenced
\* transaction has no amount.
C19_LoggedAmountPresent ==
    /\ \A t \in DOMAIN transaction_numbers :
          /\ transaction_numbers[t].amount # None
          /\ transaction_numbers[t].amount[1] >= 0
    /\ result # "noamount"

\* a dispute-family record read the amount of a logged record, after a record
\* without an amount and one with a negative amount had been turned away
C19_Witness ==
    /\ IsDisputeFamily /\ result = "ok"
    /\ last[1].tx_id \in DOMAIN prev_tree
    /\ seen \ (DOMAIN prev_tree) # {}

\* ---- C20 ------------------------------------------------------------------
RECURSIVE SumAmounts(_, _)
\* the sum of the amounts of the records of `tree` whose tx ids are in S
SumAmounts(S, tree) ==
    IF S = {} THEN 0
    ELSE LET t == CHOOSE x \in S : TRUE
         IN  tree[t].amount[1] + SumAmounts(S \ {t}, tree)

\* the tx ids of the logged deposits of client c that are in dispute
DisputedDepositsOf(c) ==
    { t \in DOMAIN transaction_numbers :
        /\ transaction_numbers[t].tx_type = Deposit
        /\ transaction_numbers[t].client_id = c
        /\ transaction_numbers[t].in_dispute }

\* C20: when no deposit or withdrawal record came with in_dispute = true, the
\* held balance of every unlocked client is the sum of the amounts of that
\* client's logged deposits that are in dispute.
C20_HeldIsDisputedSum ==
    (Acted /\ ~preset) =>
        \A c \in DOMAIN clients :
            ~clients[c].locked =>
                clients[c].held = SumAmounts(DisputedDepositsOf(c), transaction_numbers)

\* ---- C21 ------------------------------------------------------------------
\* C21: a dispute, resolve or chargeback record changes the pool or the tree
\* only when its tx id is in the log and its client id is the client id of the
\* logged record; a record naming another client than the owner of the
\* referenced record leaves every account and every logged record as it was.
C21_OwnerOnly ==
    (IsDisputeFamily /\ Completed /\ ~StateUnchanged) =>
        /\ last[1].tx_id \in DOMAIN prev_tree
        /\ prev_tree[last[1].tx_id].client_id = last[1].client_id

\* ---- C22 ------------------------------------------------------------------
\* the sum of the amounts of the logged records of kind ty of client c
LoggedSum(c, ty) ==
    SumAmounts({ t \in DOMAIN transaction_numbers :
                    /\ transaction_numbers[t].tx_type = ty
                    /\ transaction_numbers[t].client_id = c },
               transaction_numbers)

====
